---- MODULE Spec2Model ----
(***************************************************************************)
(* Model of architecture/networks.py: the two U-Net graph builders         *)
(* (unet, parameter_efficient) as step machines that register nodes in a   *)
(* graph under variable scopes, and the shape calculator                   *)
(* get_output_side_length as a pure operator.                              *)
(***************************************************************************)
EXTENDS Integers, Sequences, FiniteSets, TLC

VARIABLES
    fn,          \* which builder is running: "unet", "parameter_efficient", "none"
    cfg,         \* the arguments of the running builder call
    pc,          \* position of the builder in its body
    i,           \* loop variable of the contracting / expanding loops
    activation,  \* local `activation` of parameter_efficient after str.lower
    outputs,     \* the local list `outputs` (side outputs, tagged by producing stage)
    graph,       \* nodes registered in the ambient graph by this call, in order
    prev,        \* outcome of the previous parameter_efficient call, or NoCall
    calc,        \* arguments of the calculator calls: depth, convolutions, filter_size, pool_size
    side,        \* side_length argument of the current calculator call
    calcPc,      \* "idle" before the call, "returned" after it
    result,      \* outcome of the current calculator call
    prevSide,    \* side_length argument of the previous calculator call, or -1
    prevResult   \* outcome of the previous calculator call

vars == <<fn, cfg, pc, i, activation, outputs, graph, prev,
          calc, side, calcPc, result, prevSide, prevResult>>

builderVars == <<fn, cfg, pc, i, activation, outputs, graph, prev>>
calcVars == <<calc, side, calcPc, result, prevSide, prevResult>>

\* ---------------------------------------------------------------- bounds
MaxDepth == 3
MaxConvolutions == 2
MaxFilterSize == 3
MaxPoolSize == 3
MaxSideLength == 40
MaxBuilderSide == 8

\* ------------------------------------------------- get_output_side_length
\* Outcome of a call: kind "ok" carries the returned value; the error kinds
\* carry the numbers formatted into the ValueError message.
\*   pools / ups count the pool_size divisions / multiplications performed.
NoResult == [kind |-> "none", value |-> 0, stage |-> 0, conv |-> 0, pools |-> 0, ups |-> 0]

\* networks.py:353 / 363  side_length -= (filter_size - 1)
ConvStep(side_length, filter_size) == side_length - (filter_size - 1)

\* networks.py:357  (side_length % pool_size) != 0
NotDivisibleUnchecked(side_length, pool_size) == FALSE
NotDivisible(side_length, pool_size) == (side_length % pool_size) # 0

\* networks.py:360  side_length /= pool_size  (Python 2 integer division)
PoolDivide(side_length, pool_size) == side_length \div pool_size

\* networks.py:358  the layer number formatted into the message: i + 1
PoolLayer(stage) == stage + 1

\* networks.py:368-369  side_length *= pool_size; side_length -= convolutions * (filter_size - 1)
ExpandStepSwapped(side_length, convolutions, filter_size, pool_size) ==
    (convolutions * (filter_size - 1)) - (side_length * pool_size)
ExpandStepSubtractFirst(side_length, convolutions, filter_size, pool_size) ==
    (side_length - convolutions * (filter_size - 1)) * pool_size
ExpandStep(side_length, convolutions, filter_size, pool_size) ==
    (side_length * pool_size) - (convolutions * (filter_size - 1))

\* networks.py:352-355 / 362-365  the inner loop over j; stops at the first
\* convolution after which side_length < 0.
RECURSIVE ConvLoop(_, _, _, _)
ConvLoop(side_length, convolutions, filter_size, j) ==
    IF j >= convolutions
    THEN [neg |-> FALSE, side |-> side_length, conv |-> 0]
    ELSE LET s == ConvStep(side_length, filter_size)
         IN  IF s < 0
             THEN [neg |-> TRUE, side |-> s, conv |-> j + 1]
             ELSE ConvLoop(s, convolutions, filter_size, j + 1)

\* networks.py:367-369  for i in xrange(depth - 1)
RECURSIVE ExpandLoop(_, _, _, _, _, _)
ExpandLoop(side_length, k, depth, convolutions, filter_size, pool_size) ==
    IF k >= depth - 1
    THEN side_length
    ELSE ExpandLoop(ExpandStep(side_length, convolutions, filter_size, pool_size),
                    k + 1, depth, convolutions, filter_size, pool_size)

\* networks.py:362-371  bottom stage, expanding loop and return
BottomAndUp(side_length, pools, depth, convolutions, filter_size, pool_size) ==
    LET c == ConvLoop(side_length, convolutions, filter_size, 0)
    IN  IF c.neg
        THEN [kind |-> "neg_bottom", value |-> c.side, stage |-> 0, conv |-> c.conv,
              pools |-> pools, ups |-> 0]
        ELSE [kind |-> "ok",
              value |-> ExpandLoop(c.side, 0, depth, convolutions, filter_size, pool_size),
              stage |-> 0, conv |-> 0, pools |-> pools,
              ups |-> IF depth - 1 > 0 THEN depth - 1 ELSE 0]

\* networks.py:350-360  for i in xrange(depth - 1): the contracting stages
RECURSIVE ContractLoop(_, _, _, _, _, _)
ContractLoop(side_length, k, depth, convolutions, filter_size, pool_size) ==
    IF k >= depth - 1
    THEN BottomAndUp(side_length, k, depth, convolutions, filter_size, pool_size)
    ELSE LET c == ConvLoop(side_length, convolutions, filter_size, 0)
         IN  IF c.neg
             THEN [kind |-> "neg_contracting", value |-> c.side, stage |-> k,
                   conv |-> c.conv, pools |-> k, ups |-> 0]
             ELSE IF NotDivisible(c.side, pool_size)
                  THEN [kind |-> "not_divisible", value |-> c.side,
                        stage |-> PoolLayer(k), conv |-> 0, pools |-> k, ups |-> 0]
                  ELSE ContractLoop(PoolDivide(c.side, pool_size), k + 1, depth,
                                    convolutions, filter_size, pool_size)

\* networks.py:316-371
get_output_side_length(side_length, depth, convolutions, filter_size, pool_size) ==
    ContractLoop(side_length, 0, depth, convolutions, filter_size, pool_size)

\* ---------------------------------------------------------------- builders
\* Default arguments that the model keeps fixed (networks.py:7 and :196).
in_channels == 1
out_channels == 2
batch_size == 1

\* networks.py:54 and :233  pool_size = 2
pe_pool_size == 2
unet_pool_size == 2

\* networks.py:234  padding = "SAME"
unet_padding_valid == "VALID"
unet_padding == "SAME"

\* A node registered in the graph: the variable-scope path it is created
\* under, the primitive that creates it, the name= argument (or ""), and
\* the arguments that matter to the wiring.
Node(scope, op, name) ==
    [scope |-> scope, op |-> op, name |-> name, padding |-> "", skip |-> -1,
     activation |-> <<>>, shape |-> <<>>, dtype |-> "", filter_size |-> 0,
     count |-> 0, mult |-> ""]

\* layers.max_pool(conv_out, pool_size, ...)
MaxPool(scope, pool_size) == [Node(scope, "max_pool", "") EXCEPT !.count = pool_size]

\* str(i) of the loop index appended to "step_" / "res_block_"
StepName(k) == "step_" \o ToString(k)
ResBlockName(k) == "res_block_" \o ToString(k)

\* str.lower on the characters the activation argument is made of
UpperCase == <<"A","B","C","D","E","F","G","H","I","J","K","L","M",
               "N","O","P","Q","R","S","T","U","V","W","X","Y","Z">>
LowerCase == <<"a","b","c","d","e","f","g","h","i","j","k","l","m",
               "n","o","p","q","r","s","t","u","v","w","x","y","z">>
LowerChar(ch) ==
    IF \E k \in DOMAIN UpperCase : UpperCase[k] = ch
    THEN LowerCase[CHOOSE k \in DOMAIN UpperCase : UpperCase[k] = ch]
    ELSE ch

\* networks.py:50  activation = str.lower(activation)
str_lower_identity(s) == s
str_lower(s) == [k \in DOMAIN s |-> LowerChar(s[k])]

\* networks.py:51  the list ["relu", "crelu"]
relu == <<"r","e","l","u">>
crelu == <<"c","r","e","l","u">>
ValidActivations == {relu, crelu}

\* list.reverse() (networks.py:172 and :292)
reverse_identity(s) == s
reverse(s) == [k \in 1..Len(s) |-> s[Len(s) + 1 - k]]

\* networks.py:58-67 / 237-245  the placeholders under scope "inputs"
LabelsPlaceholderCropped(c) ==
    LET s == c.side_length - (c.filter_size - 1)
    IN  IF c.sparse_labels
        THEN [Node(<<"inputs">>, "placeholder", "labels") EXCEPT
                !.shape = <<batch_size, s, s>>, !.dtype = "int32"]
        ELSE [Node(<<"inputs">>, "placeholder", "labels") EXCEPT
                !.shape = <<batch_size, s, s, out_channels>>, !.dtype = "float32"]
LabelsPlaceholder(c) ==
    IF c.sparse_labels
    THEN [Node(<<"inputs">>, "placeholder", "labels") EXCEPT
            !.shape = <<batch_size, c.side_length, c.side_length>>, !.dtype = "int32"]
    ELSE [Node(<<"inputs">>, "placeholder", "labels") EXCEPT
            !.shape = <<batch_size, c.side_length, c.side_length, out_channels>>,
            !.dtype = "float32"]

InputsPlaceholder(c) ==
    [Node(<<"inputs">>, "placeholder", "inputs") EXCEPT
        !.shape = <<batch_size, c.side_length, c.side_length, in_channels>>,
        !.dtype = "float32"]

KeepProbPlaceholder ==
    [Node(<<"inputs">>, "placeholder", "keep_prob") EXCEPT !.dtype = "float32"]

TrainingPlaceholder ==
    [Node(<<"inputs">>, "placeholder", "training") EXCEPT !.dtype = "bool"]

\* networks.py:237-245
unet_inputs_nodes(c) ==
    <<InputsPlaceholder(c), LabelsPlaceholder(c), KeepProbPlaceholder,
      Node(<<"inputs">>, "transpose", "")>>

\* networks.py:58-67
pe_inputs_nodes(c) ==
    <<InputsPlaceholder(c), LabelsPlaceholder(c), KeepProbPlaceholder,
      TrainingPlaceholder, Node(<<"inputs">>, "transpose", "")>>

\* layers.conv_block(..., padding=padding, ...) as called by unet
ConvBlock(scope, c, mult) ==
    [Node(scope, "conv_block", "") EXCEPT
        !.padding = unet_padding, !.filter_size = c.filter_size,
        !.count = c.convolutions, !.mult = mult]

\* networks.py:275-279  contracting step_0 of unet
unet_step_0_nodes(c) ==
    LET s == <<"contracting", "step_0">>
    IN  <<ConvBlock(s, c, "out_filters"), MaxPool(s, unet_pool_size), Node(s, "dropout", "")>>

\* networks.py:248-255  unet.step_down(name, _input) called under "contracting"
unet_step_down_nodes(c, name) ==
    LET s == <<"contracting", name>>
    IN  <<ConvBlock(s, c, "2"), MaxPool(s, unet_pool_size), Node(s, "dropout", "")>>

\* networks.py:286-287  bottom stage of unet
unet_bottom_nodes(c) ==
    <<ConvBlock(<<StepName(c.depth)>>, c, "2")>>

\* networks.py:258-265  unet.step_up(name, bottom_input, side_input) under "expanding"
unet_step_up_nodes(c, name, side_input) ==
    LET s == <<"expanding", name>>
    IN  <<[Node(s, "upconv_concat_block", "") EXCEPT !.skip = side_input],
          Node(s, "dropout", ""),
          ConvBlock(s, c, "0.5")>>

\* networks.py:303-311  classification head of unet
unet_classification_nodes ==
    LET s == <<"classification">>
    IN  <<Node(s, "weight_variable", "weights"), Node(s, "bias_variable", "biases"),
          [Node(s, "conv2d", "conv") EXCEPT !.padding = "VALID"],
          Node(s, "add", ""), Node(s, "transpose", "")>>

\* layers.res_block(..., channel_multiplier=mult, ..., activation=activation, ...)
ResBlock(scope, c, act, mult) ==
    [Node(scope, "res_block", "") EXCEPT
        !.activation = act, !.filter_size = c.filter_size, !.count = 2, !.mult = mult]

\* for i in xrange(first, res_blocks): with tf.variable_scope("res_block_" + str(i))
ResBlocksFrom(scope, c, act, first) ==
    IF c.res_blocks <= first
    THEN <<>>
    ELSE [k \in 1..(c.res_blocks - first) |->
            ResBlock(Append(scope, ResBlockName(first + k - 1)), c, act, "1")]

\* networks.py:111-150  hand-unrolled contracting step_0 of parameter_efficient
pe_step_0_nodes(c, act) ==
    LET s == <<"contracting", "step_0">>
        conv == [Node(s, "conv2d", "") EXCEPT !.padding = "SAME"]
    IN  <<Node(s, "weight_variable", "weights"), conv,
          Node(s, "bias_variable", "biases"), Node(s, "add", "")>>
        \o (IF c.batch_norm THEN <<Node(s, "batch_normalization", "batch_norm")>> ELSE <<>>)
        \o (IF act = crelu THEN <<Node(s, "concat", "")>> ELSE <<>>)
        \o <<Node(s, "relu", ""),
             Node(s, "weight_variable", "weights"), conv,
             Node(s, "bias_variable", "biases"), Node(s, "add", ""),
             ResBlock(s, c, act, "1"),
             MaxPool(s, pe_pool_size), Node(s, "dropout", ""), Node(s, "dropout", "")>>

\* networks.py:70-88  parameter_efficient.step_down called under "contracting"
pe_step_down_nodes(c, act, name) ==
    LET s == <<"contracting", name>>
    IN  <<ResBlock(Append(s, "res_block_0"), c, act, "2")>>
        \o ResBlocksFrom(s, c, act, 1)
        \o <<Node(s, "add", ""), MaxPool(s, pe_pool_size),
             Node(s, "dropout", ""), Node(s, "dropout", "")>>

\* networks.py:158-167  bottom stage of parameter_efficient
pe_bottom_nodes(c, act) ==
    LET s == <<StepName(c.depth)>>
    IN  <<ResBlock(Append(s, "res_block_0"), c, act, "2")>>
        \o ResBlocksFrom(s, c, act, 1)
        \o <<Node(s, "add", ""), Node(s, "dropout", "")>>

\* networks.py:91-103  parameter_efficient.step_up called under "expanding"
pe_step_up_nodes(c, act, name, side_input) ==
    LET s == <<"expanding", name>>
    IN  <<[Node(s, "upconv_add_block", "") EXCEPT !.skip = side_input]>>
        \o ResBlocksFrom(s, c, act, 0)
        \o <<Node(s, "dropout", "")>>

\* networks.py:183-191  classification head of parameter_efficient
pe_classification_nodes ==
    LET s == <<"classification">>
    IN  <<Node(s, "weight_variable", "weights"), Node(s, "bias_variable", "biases"),
          [Node(s, "conv2d", "conv") EXCEPT !.padding = "SAME"],
          Node(s, "add", ""), Node(s, "transpose", "")>>

\* ------------------------------------------------------------ input domains
Activations ==
    {<<"c","R","e","L","U">>, <<"R","e","L","U">>, relu, crelu,
     <<"C","R","E","L","U">>, <<"s","i","g","m","o","i","d">>, <<>>}

UnetConfigs ==
    [depth : 1..MaxDepth, convolutions : 1..MaxConvolutions,
     filter_size : 1..MaxFilterSize, side_length : 0..MaxBuilderSide,
     sparse_labels : BOOLEAN]

PEConfigs ==
    [depth : 1..MaxDepth, res_blocks : 1..MaxConvolutions,
     filter_size : 1..MaxFilterSize, side_length : {MaxBuilderSide},
     sparse_labels : BOOLEAN, activation : Activations, batch_norm : BOOLEAN]

CalcConfigs ==
    [depth : 1..MaxDepth, convolutions : 1..MaxConvolutions,
     filter_size : 1..MaxFilterSize, pool_size : 1..MaxPoolSize]

NoCall == [outcome |-> "none", cfg |-> <<>>, graph |-> <<>>]
NoCalc == [depth |-> 0, convolutions |-> 0, filter_size |-> 0, pool_size |-> 0]

BuilderIdle ==
    /\ fn = "none" /\ cfg = <<>> /\ pc = "idle" /\ i = 0
    /\ activation = <<>> /\ outputs = <<>> /\ graph = <<>> /\ prev = NoCall

CalcIdle ==
    /\ calc = NoCalc /\ side = 0 /\ calcPc = "off" /\ result = NoResult
    /\ prevSide = -1 /\ prevResult = NoResult

\* ------------------------------------------------------------------- unet
\* networks.py:233-245
unet_inputs ==
    /\ fn = "unet" /\ pc = "start"
    /\ graph' = graph \o unet_inputs_nodes(cfg)
    /\ pc' = "step_0"
    /\ UNCHANGED <<fn, cfg, i, activation, outputs, prev, calcVars>>

\* networks.py:269-279
unet_step_0 ==
    /\ fn = "unet" /\ pc = "step_0"
    /\ graph' = graph \o unet_step_0_nodes(cfg)
    /\ outputs' = Append(<<>>, 0)
    /\ i' = 1
    /\ pc' = "contracting"
    /\ UNCHANGED <<fn, cfg, activation, prev, calcVars>>

\* networks.py:281-283
unet_step_down ==
    /\ fn = "unet" /\ pc = "contracting" /\ i < cfg.depth
    /\ graph' = graph \o unet_step_down_nodes(cfg, StepName(i))
    /\ outputs' = Append(outputs, i)
    /\ i' = i + 1
    /\ UNCHANGED <<fn, cfg, pc, activation, prev, calcVars>>

\* networks.py:285-287
unet_bottom ==
    /\ fn = "unet" /\ pc = "contracting" /\ i >= cfg.depth
    /\ graph' = graph \o unet_bottom_nodes(cfg)
    /\ pc' = "reverse"
    /\ UNCHANGED <<fn, cfg, i, activation, outputs, prev, calcVars>>

\* networks.py:289-292
unet_reverse ==
    /\ fn = "unet" /\ pc = "reverse"
    /\ outputs' = reverse(outputs)
    /\ i' = 0
    /\ pc' = "expanding"
    /\ UNCHANGED <<fn, cfg, activation, graph, prev, calcVars>>

\* networks.py:295-296
unet_step_up ==
    /\ fn = "unet" /\ pc = "expanding" /\ i < cfg.depth
    /\ graph' = graph \o unet_step_up_nodes(cfg, StepName(cfg.depth + i + 1), outputs[i + 1])
    /\ i' = i + 1
    /\ UNCHANGED <<fn, cfg, pc, activation, outputs, prev, calcVars>>

\* networks.py:298-313
unet_classification ==
    /\ fn = "unet" /\ pc = "expanding" /\ i >= cfg.depth
    /\ graph' = graph \o unet_classification_nodes
    /\ pc' = "done"
    /\ UNCHANGED <<fn, cfg, i, activation, outputs, prev, calcVars>>

\* --------------------------------------------------- parameter_efficient
\* networks.py:50-52
pe_validate ==
    /\ fn = "parameter_efficient" /\ pc = "start"
    /\ activation' = str_lower(cfg.activation)
    /\ pc' = IF activation' \notin ValidActivations THEN "raised" ELSE "inputs"
    /\ UNCHANGED <<fn, cfg, i, outputs, graph, prev, calcVars>>

\* networks.py:54-67
pe_inputs ==
    /\ fn = "parameter_efficient" /\ pc = "inputs"
    /\ graph' = graph \o pe_inputs_nodes(cfg)
    /\ pc' = "step_0"
    /\ UNCHANGED <<fn, cfg, i, activation, outputs, prev, calcVars>>

\* networks.py:107-150
pe_step_0 ==
    /\ fn = "parameter_efficient" /\ pc = "step_0"
    /\ graph' = graph \o pe_step_0_nodes(cfg, activation)
    /\ outputs' = Append(<<>>, 0)
    /\ i' = 1
    /\ pc' = "contracting"
    /\ UNCHANGED <<fn, cfg, activation, prev, calcVars>>

\* networks.py:153-155
pe_step_down ==
    /\ fn = "parameter_efficient" /\ pc = "contracting" /\ i < cfg.depth
    /\ graph' = graph \o pe_step_down_nodes(cfg, activation, StepName(i))
    /\ outputs' = Append(outputs, i)
    /\ i' = i + 1
    /\ UNCHANGED <<fn, cfg, pc, activation, prev, calcVars>>

\* networks.py:157-167
pe_bottom ==
    /\ fn = "parameter_efficient" /\ pc = "contracting" /\ i >= cfg.depth
    /\ graph' = graph \o pe_bottom_nodes(cfg, activation)
    /\ pc' = "reverse"
    /\ UNCHANGED <<fn, cfg, i, activation, outputs, prev, calcVars>>

\* networks.py:169-172
pe_reverse ==
    /\ fn = "parameter_efficient" /\ pc = "reverse"
    /\ outputs' = reverse(outputs)
    /\ i' = 0
    /\ pc' = "expanding"
    /\ UNCHANGED <<fn, cfg, activation, graph, prev, calcVars>>

\* networks.py:175-176
pe_step_up ==
    /\ fn = "parameter_efficient" /\ pc = "expanding" /\ i < cfg.depth
    /\ graph' = graph \o pe_step_up_nodes(cfg, activation, StepName(cfg.depth + i + 1),
                                          outputs[i + 1])
    /\ i' = i + 1
    /\ UNCHANGED <<fn, cfg, pc, activation, outputs, prev, calcVars>>

\* networks.py:178-193
pe_classification ==
    /\ fn = "parameter_efficient" /\ pc = "expanding" /\ i >= cfg.depth
    /\ graph' = graph \o pe_classification_nodes
    /\ pc' = "done"
    /\ UNCHANGED <<fn, cfg, i, activation, outputs, prev, calcVars>>

\* A second call of parameter_efficient (networks.py:7) with the same
\* arguments except `activation`; the first call's outcome is kept in prev.
pe_call_again ==
    /\ fn = "parameter_efficient" /\ pc \in {"done", "raised"} /\ prev = NoCall
    /\ \E a \in Activations \ {cfg.activation} :
         cfg' = [cfg EXCEPT !.activation = a]
    /\ prev' = [outcome |-> pc, cfg |-> cfg, graph |-> graph]
    /\ pc' = "start" /\ i' = 0 /\ activation' = <<>> /\ outputs' = <<>> /\ graph' = <<>>
    /\ UNCHANGED <<fn, calcVars>>

Init ==
    /\ \/ fn = "unet" /\ cfg \in UnetConfigs
       \/ fn = "parameter_efficient" /\ cfg \in PEConfigs
    /\ pc = "start" /\ i = 0 /\ activation = <<>> /\ outputs = <<>> /\ graph = <<>>
    /\ prev = NoCall
    /\ CalcIdle

Next ==
    \/ unet_inputs \/ unet_step_0 \/ unet_step_down \/ unet_bottom
    \/ unet_reverse \/ unet_step_up \/ unet_classification
    \/ pe_validate \/ pe_inputs \/ pe_step_0 \/ pe_step_down \/ pe_bottom
    \/ pe_reverse \/ pe_step_up \/ pe_classification \/ pe_call_again

Spec == Init /\ [][Next]_vars

\* ------------------------------------------------ calculator specification
\* A call of get_output_side_length (networks.py:316-371) on the current arguments.
calc_call ==
    /\ calcPc = "idle"
    /\ result' = get_output_side_length(side, calc.depth, calc.convolutions,
                                        calc.filter_size, calc.pool_size)
    /\ calcPc' = "returned"
    /\ UNCHANGED <<calc, side, prevSide, prevResult, builderVars>>

\* The caller tries another side_length with the other arguments held fixed.
calc_next_side ==
    /\ calcPc = "returned" /\ prevSide = -1
    /\ \E s \in 0..MaxSideLength : side' = s
    /\ prevSide' = side /\ prevResult' = result
    /\ result' = NoResult
    /\ calcPc' = "idle"
    /\ UNCHANGED <<calc, builderVars>>

InitCalc ==
    /\ BuilderIdle
    /\ calc \in CalcConfigs
    /\ side \in 0..MaxSideLength
    /\ calcPc = "idle" /\ result = NoResult /\ prevSide = -1 /\ prevResult = NoResult

NextCalc == calc_call \/ calc_next_side

SpecCalc == InitCalc /\ [][NextCalc]_vars

\* ================================================================ claims
IsUnet == fn = "unet"
IsPE == fn = "parameter_efficient"

IsLabels(n) == n.op = "placeholder" /\ n.name = "labels"
IsConvBlock(n) == n.op = "conv_block"
IsMaxPool(n) == n.op = "max_pool"
IsUpconv(n) == n.op \in {"upconv_concat_block", "upconv_add_block"}

LabelsNodes == SelectSeq(graph, IsLabels)
ConvBlockNodes == SelectSeq(graph, IsConvBlock)
MaxPoolNodes == SelectSeq(graph, IsMaxPool)
UpconvNodes == SelectSeq(graph, IsUpconv)

\* The calculator applied to the arguments of the running unet call, pool_size = 2.
CalcOfUnet ==
    get_output_side_length(cfg.side_length, cfg.depth, cfg.convolutions,
                           cfg.filter_size, unet_pool_size)

\* ---- C1
\* C1 as stated: whenever the calculator accepts the configuration of a
\* finished unet call, the spatial side of the ground-truth placeholder equals
\* the calculator's output.
C1_GroundTruthEqualsCalculator ==
    (IsUnet /\ pc = "done" /\ CalcOfUnet.kind = "ok") =>
        \A k \in DOMAIN graph :
            IsLabels(graph[k]) =>
                /\ graph[k].shape[2] = CalcOfUnet.value
                /\ graph[k].shape[3] = CalcOfUnet.value

\* C1 amended: unet creates exactly one ground-truth placeholder and its spatial
\* side is the input side_length (rank 3 for sparse labels, rank 4 with
\* out_channels for dense ones); for accepted configurations that equals the
\* calculator's output exactly when filter_size = 1.
C1_GroundTruthEqualsInputSide ==
    (IsUnet /\ pc = "done") =>
        /\ Len(LabelsNodes) = 1
        /\ LET gt == LabelsNodes[1]
           IN  /\ gt.shape[2] = cfg.side_length
               /\ gt.shape[3] = cfg.side_length
               /\ Len(gt.shape) = IF cfg.sparse_labels THEN 3 ELSE 4
               /\ CalcOfUnet.kind = "ok" =>
                    ((gt.shape[2] = CalcOfUnet.value) <=> (cfg.filter_size = 1))

C1_Witness ==
    /\ IsUnet /\ pc = "done" /\ CalcOfUnet.kind = "ok"
    /\ cfg.depth >= 2 /\ cfg.filter_size >= 2 /\ ~cfg.sparse_labels
    /\ CalcOfUnet.value < cfg.side_length

\* ---- C4
ProductionOrder(n) == [k \in 1..n |-> k - 1]

\* C4: in both builders the skip list holds one side output per contracting
\* stage, in production order, when the contracting path and the bottom stage
\* are built (length depth before the expanding path starts); no expanding
\* stage exists before that; and the k-th expanding stage built (i = k - 1),
\* under scope expanding/step_{depth+i+1}, consumes the side output produced
\* by contracting stage depth - 1 - i; a finished call has depth of them.
C4_SkipPairing ==
    /\ pc = "contracting" => outputs = ProductionOrder(i)
    /\ pc = "reverse" => outputs = ProductionOrder(cfg.depth)
    /\ pc \in {"start", "inputs", "step_0", "contracting", "reverse"} =>
            UpconvNodes = <<>>
    /\ pc \in {"expanding", "done"} =>
        LET ups == UpconvNodes
        IN  /\ Len(outputs) = cfg.depth
            /\ Len(ups) = i
            /\ pc = "done" => Len(ups) = cfg.depth
            /\ \A k \in 1..Len(ups) :
                /\ ups[k].skip = cfg.depth - 1 - (k - 1)
                /\ ups[k].scope = <<"expanding", StepName(cfg.depth + (k - 1) + 1)>>
                /\ \E m \in DOMAIN graph :
                    /\ graph[m].scope[1] = "contracting"
                    /\ graph[m].scope[2] = StepName(ups[k].skip)

C4_Witness ==
    /\ IsPE /\ pc = "done" /\ cfg.depth >= 3
    /\ Len(UpconvNodes) = cfg.depth

\* ---- C5
\* C5 as stated: every convolution block unet constructs has "VALID" padding.
C5_AllConvBlocksValid ==
    IsUnet => \A k \in DOMAIN graph : IsConvBlock(graph[k]) => graph[k].padding = "VALID"

\* C5 amended: every convolution block unet constructs (stage 0, stages
\* 1..depth-1, the bottom stage, each expanding stage: 2*depth + 1 blocks in a
\* finished call) is created with "SAME" (padded) padding.
C5_AllConvBlocksSame ==
    IsUnet =>
        /\ \A k \in DOMAIN graph : IsConvBlock(graph[k]) => graph[k].padding = "SAME"
        /\ pc = "done" => Len(ConvBlockNodes) = 2 * cfg.depth + 1

C5_Witness ==
    /\ IsUnet /\ pc = "done" /\ cfg.depth >= 2
    /\ Len(ConvBlockNodes) = 2 * cfg.depth + 1

\* ---- C6
\* C6: for a finished unet call whose configuration the calculator accepts,
\* the number of max-pool stages in the graph is depth and equals the number of
\* pool_size divisions the calculator applied, and the number of up-convolution
\* stages equals the number of pool_size multiplications it applied.
C6_DepthCountsPoolingInBoth ==
    (IsUnet /\ pc = "done" /\ CalcOfUnet.kind = "ok") =>
        /\ Len(MaxPoolNodes) = cfg.depth
        /\ Len(UpconvNodes) = cfg.depth
        /\ CalcOfUnet.pools = Len(MaxPoolNodes)
        /\ CalcOfUnet.ups = Len(UpconvNodes)

\* ---- C7
Spelled_CRELU == <<"C","R","E","L","U">>
Spelled_cReLU == <<"c","R","e","L","U">>
Spelled_ReLU == <<"R","e","L","U">>
Spelled_sigmoid == <<"s","i","g","m","o","i","d">>
SpellingsOfCrelu == {crelu, Spelled_cReLU, Spelled_CRELU}
SpellingsOfRelu == {relu, Spelled_ReLU}

\* C7: parameter_efficient raises exactly when the activation argument is not
\* a spelling of "relu" or "crelu" (so "sigmoid" raises and "CRELU" does not),
\* a call that raised has registered no node, and two calls whose arguments
\* differ only in the spelling of the same activation both finish with the
\* same sequence of nodes.
C7_ActivationValidation ==
    IsPE =>
        /\ pc = "raised" => graph = <<>>
        /\ pc = "raised" => cfg.activation \notin (SpellingsOfCrelu \cup SpellingsOfRelu)
        /\ (pc # "start" /\ cfg.activation \notin (SpellingsOfCrelu \cup SpellingsOfRelu))
                => pc = "raised"
        /\ (pc # "start" /\ cfg.activation = Spelled_sigmoid) => (pc = "raised" /\ graph = <<>>)
        /\ cfg.activation = Spelled_CRELU => pc # "raised"
        /\ \A S \in {SpellingsOfCrelu, SpellingsOfRelu} :
            (prev # NoCall /\ pc \in {"done", "raised"}
                /\ cfg.activation \in S /\ prev.cfg.activation \in S)
                => (pc = "done" /\ prev.outcome = "done" /\ graph = prev.graph)

C7_Witness ==
    /\ IsPE /\ pc = "done" /\ prev # NoCall
    /\ prev.cfg.activation = crelu /\ cfg.activation = Spelled_CRELU
    /\ graph = prev.graph /\ Len(graph) > 0

\* ---- C10
IsKeyed(n) ==
    n.op \in {"weight_variable", "bias_variable", "batch_normalization", "conv_block",
              "res_block", "upconv_concat_block", "upconv_add_block"}

\* The stage scopes step_0 .. step_{2*depth} as they occur in the graph.
StepNames == {StepName(k) : k \in 0..(2 * cfg.depth)}
InStage(n) ==
    \/ n.scope[1] \in StepNames
    \/ Len(n.scope) >= 2 /\ n.scope[2] \in StepNames
StageScope(n) ==
    IF n.scope[1] \in StepNames THEN <<n.scope[1]>> ELSE <<n.scope[1], n.scope[2]>>
StageName(n) == StageScope(n)[Len(StageScope(n))]
StageNodes == {k \in DOMAIN graph : InStage(graph[k])}

\* C10: within one builder call the stage scopes step_0 .. step_{2*depth} are
\* pairwise distinct (a finished call has 2*depth + 1 of them, under as many
\* step names), and no two parameter creations or sub-block constructions are
\* made under the same scope path by the same primitive with the same name.
C10_DistinctNamespaces ==
    /\ pc = "done" =>
        /\ Cardinality({StageScope(graph[k]) : k \in StageNodes}) = 2 * cfg.depth + 1
        /\ Cardinality({StageName(graph[k]) : k \in StageNodes}) = 2 * cfg.depth + 1
    /\ \A a, b \in DOMAIN graph :
        (a < b /\ IsKeyed(graph[a]) /\ IsKeyed(graph[b])) =>
            ~ (/\ graph[a].scope = graph[b].scope
               /\ graph[a].op = graph[b].op
               /\ graph[a].name = graph[b].name)

\* The same statement restricted to calls of unet, where it holds.
C10_UnetOnly == IsUnet => C10_DistinctNamespaces

\* ---------------------------------------------------- calculator claims
Returned == calcPc = "returned"
Erosion == calc.convolutions * (calc.filter_size - 1)

\* The reference computation of C2, on the arguments of the current call.
RECURSIVE RefDown(_, _)
RefDown(s, n) == IF n = 0 THEN s ELSE RefDown((s - Erosion) \div calc.pool_size, n - 1)

RECURSIVE RefUp(_, _)
RefUp(s, n) == IF n = 0 THEN s ELSE RefUp(s * calc.pool_size - Erosion, n - 1)

Reference(s) == RefUp(RefDown(s, calc.depth - 1) - Erosion, calc.depth - 1)

\* ---- C2
\* C2: a value returned normally equals the reference computation.
C2_EqualsReference ==
    (Returned /\ result.kind = "ok") => result.value = Reference(side)

C2_Witness ==
    /\ Returned /\ result.kind = "ok" /\ calc.depth >= 3
    /\ calc.filter_size >= 2 /\ calc.pool_size >= 2 /\ result.value > 0

\* ---- C3
\* C3: every value returned normally is >= 0, and
\* get_output_side_length(10, 4, 2, 3, 2) raises.
C3_NeverReturnsNegative ==
    /\ (Returned /\ result.kind = "ok") => result.value >= 0
    /\ get_output_side_length(10, 4, 2, 3, 2).kind # "ok"

\* ---- C8
\* Side length left after the convolutions of contracting stage k (0-based).
BeforePool(s, k) == RefDown(s, k) - Erosion

\* Contracting stages 0..k-1 neither went negative nor failed the divisibility check.
EarlierStagesPass(s, k) ==
    \A m \in 0..(k - 1) : BeforePool(s, m) >= 0 /\ BeforePool(s, m) % calc.pool_size = 0

C9_Monotone ==
    (Returned /\ prevSide # -1 /\ result.kind = "ok" /\ prevResult.kind = "ok") =>
        /\ prevSide <= side => prevResult.value <= result.value
        /\ side <= prevSide => result.value <= prevResult.value

C9_Witness ==
    /\ Returned /\ prevSide # -1 /\ result.kind = "ok" /\ prevResult.kind = "ok"
    /\ prevSide < side /\ prevResult.value < result.value /\ calc.depth >= 2

====
